---- MODULE Spec2Model ----
(***************************************************************************)
(* Repetition counting of the squat trainer.                               *)
(*                                                                         *)
(*   SquatCounter (src/Scripts/exercise_logic.py): the two-state counter   *)
(*   fed one landmark map per frame, and its static method _angle applied  *)
(*   on its own.                                                           *)
(*   main (src/squat_trainer.py): the capture loop with the three-stage    *)
(*   machine.                                                              *)
(*   main (src/Scripts/main.py): the capture loop around a SquatCounter    *)
(*   and a SoundFeedback.                                                  *)
(*   main (src/Scripts_Final/squat_trainer.py): the capture loop with the  *)
(*   two-stage machine.                                                    *)
(*   AudioCoach (src/audio_feedback.py): speak_async called from one       *)
(*   thread, and from two threads.                                         *)
(*   sound_feedback (src/Scripts/sound_feedback.py): SoundFeedback objects *)
(*   over the module's globals.                                            *)
(*   side by side: the two-stage machine of Scripts_Final and a            *)
(*   SquatCounter with its thresholds and no noise gate, given the same    *)
(*   knee angles.                                                          *)
(*                                                                         *)
(* A behaviour of Spec is a run of one of them, named by `running`.        *)
(* The calls a loop makes to its audio collaborator are recorded in        *)
(* coach_calls.                                                            *)
(*                                                                         *)
(* exercise_logic.py writes the header of __init__ over two lines ("def    *)
(* __init__" and "(" on the next); it is read as the one header it means.  *)
(*                                                                         *)
(* Coordinates are integer pixels.  Angles are fixed-point numbers in      *)
(* hundredths of a degree (18000 is 180 degrees); thresholds and           *)
(* min_movement are held in the same unit.  Python's None and the float    *)
(* NaN are the empty sequence, a defined number x is <<x>>.                *)
(*                                                                         *)
(* Two SquatCounter objects of equal configuration are driven by the same  *)
(* calls: the one in rep_count, state, last_angle, event, and `other`.     *)
(* A third, `mirror`, has the opposite side and is given each frame with   *)
(* the left and right entries exchanged.                                   *)
(***************************************************************************)
EXTENDS Integers, Sequences, FiniteSets, TLC

(***************************************************************************)
(* Bounds of the model.                                                    *)
(***************************************************************************)
MaxReps == 2

\* the clock of an audio run moves at most this far (tenths of a second)
MaxElapsed == 14

(***************************************************************************)
(* Values.                                                                 *)
(***************************************************************************)
Undefined == << >>

Some(x) == << x >>

IsDefined(v) == Len(v) = 1

Val(v) == v[1]

Abs(x) == IF x < 0 THEN -x ELSE x

Sides == {"left", "right"}

Joints == {"hip", "knee", "ankle"}

(***************************************************************************)
(* SquatCounter._angle: the angle ABC at the vertex b, in hundredths of a  *)
(* degree, or Undefined (NaN) when one of the two limb vectors is zero.    *)
(* The cosine dot/(|ba|*|bc|) is kept exact as the pair (dot, |ba|^2 *     *)
(* |bc|^2).  The quotient the code computes is the exact cosine up to      *)
(* rounding; for parallel limb vectors it can come out as                  *)
(* 1.0000000000000002 in magnitude, which np.clip brings back to 1.        *)
(* degrees(arccos(.)) is tabulated on the cosines the modelled points      *)
(* produce, rounded to a hundredth of a degree.  NaNPt is the landmark     *)
(* (nan, nan): its differences, norms and cosine are NaN, the norm tests   *)
(* against 0.0 are false and arccos returns NaN.                           *)
(***************************************************************************)
NaNPt == << >>

Sub(p, q) == << p[1] - q[1], p[2] - q[2] >>

Dot(u, v) == u[1] * v[1] + u[2] * v[2]

NormSq(u) == Dot(u, u)

Sgn(x) == IF x > 0 THEN 1 ELSE IF x < 0 THEN -1 ELSE 0

\* cos = sgn * sqrt(num / den)  |->  degrees(arccos(cos)) * 100
ArccosTable ==
    { [sgn |-> -1, num |-> 1,   den |-> 1,   deg |-> 18000],
      [sgn |-> -1, num |-> 6400, den |-> 6449, deg |-> 17500],
      [sgn |-> -1, num |-> 9,   den |-> 10,  deg |-> 16157],
      [sgn |-> -1, num |-> 80089, den |-> 90698, deg |-> 16000],
      [sgn |-> -1, num |-> 144, den |-> 169, deg |-> 15738],
      [sgn |-> -1, num |-> 9, den |-> 13, deg |-> 14631],
      [sgn |-> -1, num |-> 529, den |-> 1105, deg |-> 13378],
      [sgn |-> -1, num |-> 4, den |-> 13, deg |-> 12369],
      [sgn |-> -1, num |-> 121, den |-> 1417, deg |-> 10699],
      [sgn |-> 1, num |-> 1, den |-> 17425, deg |-> 8957],
      [sgn |-> 1, num |-> 625, den |-> 24961, deg |-> 8090],
      [sgn |-> 1, num |-> 49, den |-> 218, deg |-> 6170],
      [sgn |-> 1, num |-> 49, den |-> 170, deg |-> 5753],
      [sgn |-> 1, num |-> 4, den |-> 13, deg |-> 5631],
      [sgn |-> 1, num |-> 1, den |-> 2, deg |-> 4500],
      [sgn |-> 1, num |-> 1369, den |-> 2665, deg |-> 4422],
      [sgn |-> 1, num |-> 289, den |-> 458, deg |-> 3741],
      [sgn |-> 1, num |-> 9, den |-> 13, deg |-> 3369],
      [sgn |-> 1, num |-> 289, den |-> 410, deg |-> 3291],
      [sgn |-> 1, num |-> 17161, den |-> 22345, deg |-> 2879],
      [sgn |-> 1, num |-> 2401, den |-> 2977, deg |-> 2610],
      [sgn |-> 1, num |-> 17161, den |-> 19465, deg |-> 2012],
      [sgn |-> 1, num |-> 100, den |-> 109, deg |-> 1670],
      [sgn |-> 1, num |-> 81, den |-> 85, deg |-> 1253],
      [sgn |-> 1, num |-> 196, den |-> 205, deg |-> 1209],
      [sgn |-> 1, num |-> 225, den |-> 229, deg |-> 759],
      [sgn |-> -1, num |-> 4,   den |-> 5,   deg |-> 15343],
      [sgn |-> -1, num |-> 7569, den |-> 12898, deg |-> 14000],
      [sgn |-> -1, num |-> 25,  den |-> 169, deg |-> 11262],
      [sgn |-> -1, num |-> 49,  den |-> 6449, deg |-> 9500],
      [sgn |-> 0,  num |-> 0,   den |-> 1,   deg |-> 9000],
      [sgn |-> 1,  num |-> 49,  den |-> 6449, deg |-> 8500],
      [sgn |-> 1,  num |-> 1,   den |-> 5,   deg |-> 6343],
      [sgn |-> 1,  num |-> 1,   den |-> 1,   deg |-> 0] }

RECURSIVE Gcd(_, _)
Gcd(m, n) == IF n = 0 THEN m ELSE Gcd(n, m % n)

\* the table holds cos^2 in lowest terms
ArccosDeg(dot, normsq) ==
    LET g == Gcd(dot * dot, normsq)
    IN  (CHOOSE e \in ArccosTable :
            /\ e.sgn = Sgn(dot)
            /\ e.num = (dot * dot) \div g
            /\ e.den = normsq \div g).deg

\* the pairs (|ba|^2, |bc|^2), among those of the modelled points, for which
\* the product of the two rounded square roots is below |ba| * |bc|
\* (IEEE-754 doubles: sqrt(13.0) * sqrt(13.0) is 12.999999999999998)
NormProductShort ==
    { << 13, 13 >>, << 13, 52 >>, << 52, 13 >>, << 52, 52 >>,
      << 288, 288 >> }

\* the quotient dot / (norm_ba * norm_bc) as computed lies outside [-1, 1]
Overshoots(ba, bc) ==
    /\ Dot(ba, bc) * Dot(ba, bc) = NormSq(ba) * NormSq(bc)
    /\ << NormSq(ba), NormSq(bc) >> \in NormProductShort

NoClip(over) == over

\* np.clip(cosine, -1.0, 1.0): whether the cosine handed to arccos is
\* still outside [-1, 1], where arccos returns NaN
Clip(over) == FALSE

\* the angle with the zero-length test of the first limb only, and 0 for
\* a second limb of zero length
AngleProximalOnly(a, b, c) ==
    LET ba == Sub(a, b)
        bc == Sub(c, b)
    IN  IF NaNPt \in {a, b, c}
        THEN Undefined
        ELSE IF NormSq(ba) = 0
        THEN Undefined
        ELSE IF NormSq(bc) = 0
        THEN Some(0)
        ELSE Some(ArccosDeg(Dot(ba, bc), NormSq(ba) * NormSq(bc)))

\* the angle measured from ba round to bc in one sense of rotation
AngleDirected(a, b, c) ==
    LET ba == Sub(a, b)
        bc == Sub(c, b)
    IN  IF NaNPt \in {a, b, c}
        THEN Undefined
        ELSE IF NormSq(ba) = 0 \/ NormSq(bc) = 0
        THEN Undefined
        ELSE IF ba[1] * bc[2] - ba[2] * bc[1] < 0
        THEN Some(36000 - ArccosDeg(Dot(ba, bc), NormSq(ba) * NormSq(bc)))
        ELSE Some(ArccosDeg(Dot(ba, bc), NormSq(ba) * NormSq(bc)))

Angle(a, b, c) ==
    LET ba == Sub(a, b)
        bc == Sub(c, b)
    IN  IF NaNPt \in {a, b, c}
        THEN Undefined
        ELSE IF NormSq(ba) = 0 \/ NormSq(bc) = 0
        THEN Undefined
        ELSE IF Clip(Overshoots(ba, bc))
        THEN Undefined
        ELSE Some(ArccosDeg(Dot(ba, bc), NormSq(ba) * NormSq(bc)))

\* the points _angle is applied to on its own: the knee, the hip above it,
\* a point level with the knee, and two points on one line through the knee
Points == { << 30, 30 >>, << 30, 42 >>, << 32, 45 >>, << 28, 39 >>,
            << 42, 42 >> }

(***************************************************************************)
(* Landmark maps handed to update(): functions from landmark names to      *)
(* points.  The hip stands straight above the knee; the ankle sweeps from  *)
(* the straight leg (180 degrees) to deep flexion (63.43 degrees).         *)
(***************************************************************************)
KneePt == << 30, 42 >>

HipPt == << 30, 30 >>

StraightAnkle == << 30, 54 >>

AnklePts ==
    { << 30, 54 >>, << 34, 54 >>, << 35, 54 >>, << 36, 54 >>,
      << 42, 47 >>, << 42, 42 >>, << 42, 36 >> }

DeepAnkle == << 42, 36 >>

\* ankles at 175, 140, 85, 95 and 160 degrees
ScenarioAnkles ==
    << << 37, 122 >>, << 103, 129 >>, << 110, 35 >>, << 110, 49 >>,
       << 133, 325 >> >>

\* f"{side}_{name}"
Key(s, name) == s \o "_" \o name

EmptyFrame == [k \in {} |-> KneePt]

SideFrame(s, h, k, a) ==
    (Key(s, "hip") :> h) @@ (Key(s, "knee") :> k) @@ (Key(s, "ankle") :> a)

BareFrame(h, k, a) == ("hip" :> h) @@ ("knee" :> k) @@ ("ankle" :> a)

Without(lm, keys) == [k \in (DOMAIN lm) \ keys |-> lm[k]]

(***************************************************************************)
(* State.                                                                  *)
(***************************************************************************)
VARIABLES
    running,        \* the program of this run: "SquatCounter",
                    \* "squat_trainer", "_angle", "main", "Scripts_Final",
                    \* "AudioCoach", "dispatchers", "sound_feedback",
                    \* "side_by_side"
    side,           \* SquatCounter.side
    down_angle,     \* SquatCounter.down_angle
    up_angle,       \* SquatCounter.up_angle
    min_movement,   \* SquatCounter.min_movement
    rep_count,      \* SquatCounter.rep_count
    state,          \* SquatCounter.state
    last_angle,     \* SquatCounter._last_angle
    op,             \* the call made last: "init", "update" or "reset"
    landmarks,      \* argument of the last update()
    event,          \* SquatEvent returned by the last update()
    pre,            \* rep_count, state, _last_angle when the last call began
    hist,           \* history of the current repetition cycle
    args,           \* the arguments SquatCounter() was called with
    raised,         \* the exception the last call raised, or "none"
    other,          \* a second SquatCounter, constructed with the same
                    \* arguments and given the same calls
    since,          \* history since construction or the last reset
    mirror,         \* a SquatCounter of the opposite side, otherwise
                    \* constructed alike and given the mirrored frames
    pc,             \* a capture loop: "loop"; after the loop "released";
                    \* "raised" when an exception left main before
                    \* cap.release()
    started,        \* squat_trainer.main: started; Scripts/main.py: the
                    \* user was ready
    stage,          \* squat_trainer.main: stage
    reps,           \* squat_trainer.main: rep_count
    knee_angle,     \* squat_trainer.main: knee_angle of the last workout frame
    coach_calls,    \* calls made to the AudioCoach (to the SoundFeedback in
                    \* Scripts/main.py) by the last iteration
    loop_pre,       \* stage and rep_count when the last iteration began,
                    \* the counter of Scripts/main.py at that time, and
                    \* whether the iteration read the key Q
    loop_hist,      \* history of the current repetition cycle of the loop
    hud,            \* Scripts/main.py: what overlay.draw_hud was last
                    \* called with
    angle_call,     \* a call of _angle on its own: the three points, and
                    \* once called the values of _angle(a, b, c) and
                    \* _angle(c, b, a)
    now,            \* time.time(), in tenths of a second
    last_spoken_time, \* AudioCoach.last_spoken_time
    has_tts,        \* AudioCoach.has_tts
    saying,         \* the speech threads running 'say': the time each ends
    dispatch,       \* the threads calling speak_async: where each is in it,
                    \* and its current_time
    _enabled,       \* sound_feedback._enabled
    _last_ts,       \* sound_feedback._last_ts
    sessions,       \* the SoundFeedback objects
    uttered,        \* the times of the last two utterances started
    asked           \* the last announcement requested: when, the
                    \* last-spoken time it met, whether it was spoken

config == << side, down_angle, up_angle, min_movement >>

counter == << rep_count, state, last_angle >>

counterVars == << side, down_angle, up_angle, min_movement, rep_count, state,
                  last_angle, op, landmarks, event, pre, hist, args, raised,
                  other, since, mirror >>

trainerVars == << pc, started, stage, reps, knee_angle, coach_calls,
                  loop_pre, loop_hist, hud >>

audioVars == << now, last_spoken_time, has_tts, saying, dispatch, _enabled,
               _last_ts, sessions, uttered, asked >>

libVars == << angle_call, audioVars >>

vars == << running, counterVars, trainerVars, libVars >>

\* the ankles a counter is shown: the counter with the thresholds 90 and 150
\* sees 175, 140, 85, 95 and 160 degrees, the others the general sweep
Sweep ==
    IF << down_angle, up_angle >> = << 9000, 15000 >>
    THEN { ScenarioAnkles[i] : i \in 1..5 }
    ELSE AnklePts

Frames ==
    \* the sweep of the leg, in the generic vocabulary
    { BareFrame(HipPt, KneePt, a) : a \in Sweep }
    \* side-qualified vocabulary
    \cup { SideFrame("left", HipPt, KneePt, DeepAnkle),
           SideFrame("right", HipPt, KneePt, StraightAnkle) }
    \* coincident points: ankle on the knee, hip on the knee
    \cup { BareFrame(HipPt, KneePt, KneePt),
           BareFrame(KneePt, KneePt, StraightAnkle) }
    \* side-qualified entries next to different generic entries
    \cup { SideFrame("left", HipPt, KneePt, DeepAnkle)
             @@ BareFrame(HipPt, KneePt, StraightAnkle),
           SideFrame("right", HipPt, KneePt, StraightAnkle)
             @@ BareFrame(HipPt, KneePt, DeepAnkle) }
    \* the ankle alone side-qualified, next to a generic body
    \cup { ("left_ankle" :> DeepAnkle)
             @@ BareFrame(HipPt, KneePt, StraightAnkle) }
    \* an ankle without finite coordinates
    \cup { BareFrame(HipPt, KneePt, NaNPt) }
    \* no body, and partial bodies
    \cup { EmptyFrame }
    \cup { Without(BareFrame(HipPt, KneePt, StraightAnkle), {j}) : j \in Joints }

(***************************************************************************)
(* Construction.  side, down_angle, up_angle and min_movement are          *)
(* constructor arguments: the defaults (left, 70, 160, 5), the other side, *)
(* thresholds on the right angle and the straight leg (90, 180), the       *)
(* thresholds 90 and 150, a coarse noise gate of 50 degrees, the           *)
(* thresholds the wrong way round (--down 160 --up 70 passes parse_args of *)
(* src/Scripts/main.py), and a side that is neither left nor right.        *)
(***************************************************************************)
Configs ==
    { << "left",  7000, 16000, 500 >>,
      << "right", 7000, 16000, 500 >>,
      << "left",  9000, 18000, 500 >>,
      << "left",  9000, 15000, 500 >>,
      << "left",  7000, 16000, 5000 >>,
      << "left",  16000, 7000, 500 >>,
      << "both",  7000, 16000, 500 >> }

NoEvent == [angle |-> Undefined, state |-> "none", rep_completed |-> FALSE]

\* history of the repetition cycle in progress:
\*   accepted  the last sample that passed the noise gate
\*   flexed    an up -> down transition happened in this cycle
\*   mid       a sample strictly between the thresholds was processed
\*             in state up in this cycle
\*   viaMid    mid held when the up -> down transition happened
NoHist == [accepted |-> Undefined, flexed |-> FALSE, mid |-> FALSE,
           viaMid |-> FALSE]

\* history since construction or the last reset:
\*   phase   of a run of accepted samples: "fresh", "top" after a sample
\*           >= up_angle, "bottom" after a later sample <= down_angle,
\*           "done" after a later sample >= up_angle; "off" once a sample
\*           was not accepted or came after "done"
\*   moved   the last update changed phase
\*   script  n when the updates so far had the first n angles of Script,
\*           -1 otherwise
\*   completed  the number of updates that returned rep_completed = true
\*   seen    an update had a defined angle
\*   first   the last update was the first with a defined angle
NoSince == [phase |-> "fresh", moved |-> FALSE, script |-> 0,
            completed |-> 0, seen |-> FALSE, first |-> FALSE]

Script == << 17500, 14000, 8500, 9500, 16000 >>

Snapshot == [rep_count |-> rep_count, state |-> state,
             last_angle |-> last_angle, hist |-> hist,
             completed |-> event.rep_completed]

\* the parameter defaults of SquatCounter.__init__
DefaultConfig == << "left", 7000, 16000, 500 >>

ConstructFlexed(c) ==
    /\ side = c[1]
    /\ down_angle = c[2]
    /\ up_angle = c[3]
    /\ min_movement = c[4]
    /\ rep_count = 0
    /\ state = "down"
    /\ last_angle = Undefined
    /\ op = "init"
    /\ landmarks = EmptyFrame
    /\ event = NoEvent
    /\ hist = NoHist
    /\ pre = [rep_count |-> 0, state |-> "up", last_angle |-> Undefined,
              hist |-> NoHist, completed |-> FALSE]
    /\ other = [rep_count |-> 0, state |-> "up", last_angle |-> Undefined,
                event |-> NoEvent]
    /\ since = NoSince
    /\ mirror = [rep_count |-> 0, state |-> "up", last_angle |-> Undefined,
                 event |-> NoEvent]

Construct(c) ==
    /\ side = c[1]
    /\ down_angle = c[2]
    /\ up_angle = c[3]
    /\ min_movement = c[4]
    /\ rep_count = 0
    /\ state = "up"
    /\ last_angle = Undefined
    /\ op = "init"
    /\ landmarks = EmptyFrame
    /\ event = NoEvent
    /\ hist = NoHist
    /\ pre = [rep_count |-> 0, state |-> "up", last_angle |-> Undefined,
              hist |-> NoHist, completed |-> FALSE]
    /\ other = [rep_count |-> 0, state |-> "up", last_angle |-> Undefined,
                event |-> NoEvent]
    /\ since = NoSince
    /\ mirror = [rep_count |-> 0, state |-> "up", last_angle |-> Undefined,
                 event |-> NoEvent]

\* __init__ raised before it set an attribute: there is no counter
NoCounter ==
    /\ side = "none"
    /\ down_angle = 0
    /\ up_angle = 0
    /\ min_movement = 0
    /\ rep_count = 0
    /\ state = "none"
    /\ last_angle = Undefined
    /\ op = "init"
    /\ landmarks = EmptyFrame
    /\ event = NoEvent
    /\ hist = NoHist
    /\ pre = [rep_count |-> 0, state |-> "none", last_angle |-> Undefined,
              hist |-> NoHist, completed |-> FALSE]
    /\ other = [rep_count |-> 0, state |-> "none", last_angle |-> Undefined,
                event |-> NoEvent]
    /\ since = NoSince
    /\ mirror = [rep_count |-> 0, state |-> "none", last_angle |-> Undefined,
                 event |-> NoEvent]

AnySide(s) == TRUE

\* side in {"left", "right"}
ValidSide(s) == s \in Sides

\* SquatCounter(*c)
New(c) ==
    /\ args = c
    /\ IF ValidSide(c[1])
       THEN Construct(c) /\ raised = "none"
       ELSE NoCounter /\ raised = "ValueError"

Constructed == side # "none"

(***************************************************************************)
(* squat_trainer.main up to the loop: the state variables of the loop,     *)
(* after coach.intro_message().                                            *)
(***************************************************************************)
target_reps == 20

NoLoopHist == [stood |-> FALSE, mid |-> FALSE]

\* overlay.draw_hud not yet called
NoHud == [drawn |-> FALSE, rep_count |-> 0, angle |-> Undefined,
          state |-> "none", completed |-> FALSE, body_visible |-> FALSE]

InitTrainer ==
    /\ pc = "loop"
    /\ started = FALSE
    /\ reps = 0
    /\ stage = "starting"
    /\ knee_angle = Undefined
    /\ coach_calls = << << "intro_message" >> >>
    /\ loop_pre = [stage |-> "starting", reps |-> 0, hist |-> NoLoopHist,
                   mode |-> "none", quit |-> FALSE,
                   counter |-> << 0, "up", Undefined >>]
    /\ loop_hist = NoLoopHist
    /\ hud = NoHud

(***************************************************************************)
(* main of src/Scripts/main.py up to its loop: counter and sound are       *)
(* constructed, the onboarding screen is showing.                          *)
(***************************************************************************)
InitMain ==
    /\ pc = "loop"
    /\ started = FALSE
    /\ reps = 0
    /\ stage = "none"
    /\ knee_angle = Undefined
    /\ coach_calls = << >>
    /\ loop_pre = [stage |-> "none", reps |-> 0, hist |-> NoLoopHist,
                   mode |-> "none", quit |-> FALSE,
                   counter |-> << 0, "up", Undefined >>]
    /\ loop_hist = NoLoopHist
    /\ hud = NoHud

(***************************************************************************)
(* main of src/Scripts_Final/squat_trainer.py up to its loop, after        *)
(* coach.intro_message().                                                  *)
(***************************************************************************)
InitFinal ==
    /\ pc = "loop"
    /\ started = FALSE
    /\ reps = 0
    /\ stage = "up"
    /\ knee_angle = Undefined
    /\ coach_calls = << << "intro_message" >> >>
    /\ loop_pre = [stage |-> "up", reps |-> 0, hist |-> NoLoopHist,
                   mode |-> "none", quit |-> FALSE,
                   counter |-> << 0, "up", Undefined >>]
    /\ loop_hist = NoLoopHist
    /\ hud = NoHud

(***************************************************************************)
(* The audio collaborators: AudioCoach (src/audio_feedback.py) and the     *)
(* module sound_feedback with its class SoundFeedback                      *)
(* (src/Scripts/sound_feedback.py).  Times are in tenths of a second.      *)
(* time.time() is seconds since 1970: when a program starts it is far more *)
(* than a gap past 0.0, the initial last-spoken time.                      *)
(***************************************************************************)
speak_delay == 7

_MIN_GAP == 30

StartTime == _MIN_GAP + speak_delay

\* the gap of sound_feedback is more than four times that of the
\* AudioCoach: its clock is followed three times as far
Scale == IF running = "sound_feedback" THEN 3 ELSE 1

\* the steps of the clock between two calls: under and over half the gap
\* for the AudioCoach, half the gap for sound_feedback, more than half the
\* gap for the two threads
Advances ==
    IF running = "sound_feedback" THEN { 15 }
    ELSE IF running = "dispatchers" THEN { 5 }
    ELSE { 2, 5 }

Horizon == StartTime + MaxElapsed * Scale

\* how long 'say' takes for a message: half a second, a second
Durations == { 5, 10 }

\* the loop thread and a second thread
Callers == { "loop", "second" }

SessionIds == { 1, 2 }

Counts == { 4, 5, 20 }

NoAsk == [called |-> FALSE, at |-> 0, before |-> 0, spoke |-> FALSE,
          text |-> "none", raised |-> "none"]

\* no SoundFeedback object:
\*   wanted  the flag the object was last given (enabled, set_enabled)
\*   spoke   the time of the last utterance made through the object
NoSession == [made |-> FALSE, goal |-> 0, goal_announced |-> FALSE,
              wanted |-> TRUE, spoke |-> 0]

\* AudioCoach() with the defaults; sound_feedback imported
InitAudio ==
    /\ now = StartTime
    /\ last_spoken_time = 0
    /\ has_tts = TRUE
    /\ saying = << >>
    /\ dispatch = [t \in Callers |-> [pc |-> "idle", current_time |-> 0]]
    /\ _enabled = TRUE
    /\ _last_ts = 0
    /\ sessions = [i \in SessionIds |-> NoSession]
    /\ uttered = << >>
    /\ asked = NoAsk

\* SquatCounter(down_angle=90, up_angle=150, min_movement=0): the
\* thresholds of Scripts_Final/squat_trainer.py, which has no noise gate
FinalConfig == << "left", 9000, 15000, 0 >>

\* no call of _angle on its own
NoAngleCall == [pts |-> << KneePt, KneePt, KneePt >>, called |-> FALSE,
                out |-> Undefined, rev |-> Undefined, raised |-> "none"]

InitLib ==
    /\ angle_call = NoAngleCall
    /\ InitAudio

Init ==
    \/ /\ running = "SquatCounter"
       /\ \E c \in Configs : New(c)
       /\ InitTrainer
       /\ InitLib
    \/ /\ running = "squat_trainer"
       /\ New(DefaultConfig)
       /\ InitTrainer
       /\ InitLib
    \/ /\ running = "main"
       /\ New(DefaultConfig)
       /\ InitMain
       /\ InitLib
    \/ /\ running = "Scripts_Final"
       /\ New(DefaultConfig)
       /\ InitFinal
       /\ InitLib
    \/ /\ running = "side_by_side"
       /\ New(FinalConfig)
       /\ InitFinal
       /\ InitLib
    \/ /\ running = "_angle"
       /\ New(DefaultConfig)
       /\ InitTrainer
       /\ \E a \in Points, b \in Points, c \in Points :
             angle_call = [NoAngleCall EXCEPT !.pts = << a, b, c >>]
       /\ InitAudio
    \/ /\ running \in { "dispatchers", "sound_feedback" }
       /\ New(DefaultConfig)
       /\ InitTrainer
       /\ InitLib
    \* shutil.which("say") finds the command or does not
    \/ /\ running = "AudioCoach"
       /\ New(DefaultConfig)
       /\ InitTrainer
       /\ angle_call = NoAngleCall
       /\ \E tts \in BOOLEAN :
             /\ has_tts = tts
             /\ now = StartTime
             /\ last_spoken_time = 0
             /\ saying = << >>
             /\ dispatch = [t \in Callers |-> [pc |-> "idle", current_time |-> 0]]
             /\ _enabled = TRUE
             /\ _last_ts = 0
             /\ sessions = [i \in SessionIds |-> NoSession]
             /\ uttered = << >>
             /\ asked = NoAsk

(***************************************************************************)
(* SquatCounter.reset                                                      *)
(***************************************************************************)
ResetKeepsAngle ==
    /\ running = "SquatCounter"
    /\ Constructed
    /\ pre' = Snapshot
    /\ rep_count' = 0
    /\ state' = "up"
    /\ op' = "reset"
    /\ event' = NoEvent
    /\ hist' = NoHist
    /\ raised' = "none"
    /\ other' = [rep_count |-> 0, state |-> "up", last_angle |-> Undefined,
                 event |-> NoEvent]
    /\ since' = NoSince
    /\ mirror' = [rep_count |-> 0, state |-> "up", last_angle |-> Undefined,
                  event |-> NoEvent]
    /\ UNCHANGED << running, config, args, landmarks, last_angle,
                    trainerVars, libVars >>

ResetDefaults ==
    /\ running = "SquatCounter"
    /\ Constructed
    /\ pre' = Snapshot
    /\ side' = DefaultConfig[1]
    /\ down_angle' = DefaultConfig[2]
    /\ up_angle' = DefaultConfig[3]
    /\ min_movement' = DefaultConfig[4]
    /\ rep_count' = 0
    /\ state' = "up"
    /\ last_angle' = Undefined
    /\ op' = "reset"
    /\ event' = NoEvent
    /\ hist' = NoHist
    /\ raised' = "none"
    /\ other' = [rep_count |-> 0, state |-> "up", last_angle |-> Undefined,
                 event |-> NoEvent]
    /\ since' = NoSince
    /\ mirror' = [rep_count |-> 0, state |-> "up", last_angle |-> Undefined,
                  event |-> NoEvent]
    /\ UNCHANGED << running, args, landmarks, trainerVars, libVars >>

ResetKeepsCount ==
    /\ running = "SquatCounter"
    /\ Constructed
    /\ pre' = Snapshot
    /\ state' = "up"
    /\ last_angle' = Undefined
    /\ op' = "reset"
    /\ event' = NoEvent
    /\ hist' = NoHist
    /\ raised' = "none"
    /\ other' = [rep_count |-> 0, state |-> "up", last_angle |-> Undefined,
                 event |-> NoEvent]
    /\ since' = NoSince
    /\ mirror' = [rep_count |-> 0, state |-> "up", last_angle |-> Undefined,
                  event |-> NoEvent]
    /\ UNCHANGED << running, config, args, landmarks, rep_count, trainerVars,
                    libVars >>

Reset ==
    /\ running = "SquatCounter"
    /\ Constructed
    /\ pre' = Snapshot
    /\ rep_count' = 0
    /\ state' = "up"
    /\ last_angle' = Undefined
    /\ op' = "reset"
    /\ event' = NoEvent
    /\ hist' = NoHist
    /\ raised' = "none"
    /\ other' = [rep_count |-> 0, state |-> "up", last_angle |-> Undefined,
                 event |-> NoEvent]
    /\ since' = NoSince
    /\ mirror' = [rep_count |-> 0, state |-> "up", last_angle |-> Undefined,
                  event |-> NoEvent]
    /\ UNCHANGED << running, config, args, landmarks, trainerVars, libVars >>

(***************************************************************************)
(* SquatCounter._get_landmark: the side-qualified key first, then the bare *)
(* joint name; Undefined stands for the KeyError.                          *)
(***************************************************************************)
GetLandmarkBareFirst(lm, name) ==
    IF name \in DOMAIN lm THEN Some(lm[name])
    ELSE IF Key(side, name) \in DOMAIN lm THEN Some(lm[Key(side, name)])
    ELSE Undefined

GetLandmark(lm, name) ==
    IF Key(side, name) \in DOMAIN lm THEN Some(lm[Key(side, name)])
    ELSE IF name \in DOMAIN lm THEN Some(lm[name])
    ELSE Undefined

(***************************************************************************)
(* SquatCounter.update                                                     *)
(***************************************************************************)
FrameAngleStale(lm) ==
    LET hip   == GetLandmark(lm, "hip")
        knee  == GetLandmark(lm, "knee")
        ankle == GetLandmark(lm, "ankle")
    IN  IF IsDefined(hip) /\ IsDefined(knee) /\ IsDefined(ankle)
        THEN Angle(Val(hip), Val(knee), Val(ankle))
        ELSE last_angle

\* the angle update() works with: Undefined (NaN) when a joint is missing
\* (KeyError) or _angle returns NaN
FrameAngle(lm) ==
    LET hip   == GetLandmark(lm, "hip")
        knee  == GetLandmark(lm, "knee")
        ankle == GetLandmark(lm, "ankle")
    IN  IF IsDefined(hip) /\ IsDefined(knee) /\ IsDefined(ankle)
        THEN Angle(Val(hip), Val(knee), Val(ankle))
        ELSE Undefined

\* the gate closed for a sample without a previous angle
NoiseFilteredFirst(last, angle) ==
    ~IsDefined(last) \/ Abs(angle - Val(last)) < min_movement

\* abs(angle - last_angle) < self.min_movement, with a previous angle
NoiseFiltered(last, angle) ==
    IsDefined(last) /\ Abs(angle - Val(last)) < min_movement

GoesDownStrict(st, angle) == st = "up" /\ angle < down_angle

GoesDownBelowUp(st, angle) == st = "up" /\ angle < up_angle

GoesDown(st, angle) == st = "up" /\ angle <= down_angle

ComesUpStrict(st, angle) == st = "down" /\ angle > up_angle

ComesUpAtDown(st, angle) == st = "down" /\ angle >= down_angle

ComesUpAnyState(st, angle) == angle >= up_angle

ComesUp(st, angle) == st = "down" /\ angle >= up_angle

Decrement(n) == n - 1

Increment(n) == n + 1

InDeadZone(angle) == down_angle < angle /\ angle < up_angle

NoAngleResets ==
    /\ event' = [angle |-> Undefined, state |-> state, rep_completed |-> FALSE]
    /\ rep_count' = 0
    /\ state' = "up"
    /\ last_angle' = Undefined
    /\ hist' = NoHist

\* the two early returns of update() without an angle
NoAngle ==
    /\ event' = [angle |-> Undefined, state |-> state, rep_completed |-> FALSE]
    /\ UNCHANGED << counter, hist >>

EscapesKeyError(lm) ==
    IF \E j \in Joints : ~IsDefined(GetLandmark(lm, j))
    THEN "KeyError"
    ELSE "none"

\* the exception update() lets through: the KeyError of _get_landmark is
\* caught, and nothing else in update() raises on a landmark map
Escapes(lm) == "none"

SharedLast == last_angle'

\* last_angle = self._last_angle, in the second counter
OtherLast == other.last_angle

\* update() of the second counter
UpdateOther(lm) ==
    LET angle == FrameAngle(lm)
        ev(st, done) == [angle |-> angle, state |-> st, rep_completed |-> done]
    IN  IF ~IsDefined(angle)
        THEN [other EXCEPT !.event = ev(other.state, FALSE)]
        ELSE IF NoiseFiltered(OtherLast, Val(angle))
        THEN [other EXCEPT !.last_angle = angle,
                           !.event = ev(other.state, FALSE)]
        ELSE IF GoesDown(other.state, Val(angle))
        THEN [other EXCEPT !.last_angle = angle, !.state = "down",
                           !.event = ev("down", FALSE)]
        ELSE IF ComesUp(other.state, Val(angle))
        THEN [other EXCEPT !.last_angle = angle, !.state = "up",
                           !.rep_count = Increment(@),
                           !.event = ev("up", TRUE)]
        ELSE [other EXCEPT !.last_angle = angle,
                           !.event = ev(other.state, FALSE)]

\* the opposite side
OtherSide(s) == IF s = "left" THEN "right" ELSE "left"

\* the landmark name of the same joint on the opposite side
Flip(k) ==
    CASE k = "left_hip"    -> "right_hip"
      [] k = "left_knee"   -> "right_knee"
      [] k = "left_ankle"  -> "right_ankle"
      [] k = "right_hip"   -> "left_hip"
      [] k = "right_knee"  -> "left_knee"
      [] k = "right_ankle" -> "left_ankle"
      [] OTHER             -> k

\* the frame in which each side carries the coordinates of the other: what
\* a counter of side s resolves in lm, a counter of the opposite side
\* resolves in Mirrored(lm)
Mirrored(lm) == [k \in { Flip(j) : j \in DOMAIN lm } |-> lm[Flip(k)]]

GetLandmarkLeft(s, lm, name) ==
    IF Key("left", name) \in DOMAIN lm THEN Some(lm[Key("left", name)])
    ELSE IF name \in DOMAIN lm THEN Some(lm[name])
    ELSE Undefined

\* _get_landmark of a counter whose side is s
GetLandmarkOf(s, lm, name) ==
    IF Key(s, name) \in DOMAIN lm THEN Some(lm[Key(s, name)])
    ELSE IF name \in DOMAIN lm THEN Some(lm[name])
    ELSE Undefined

\* the angle update() of a counter of side s works with
FrameAngleOf(s, lm) ==
    LET hip   == GetLandmarkOf(s, lm, "hip")
        knee  == GetLandmarkOf(s, lm, "knee")
        ankle == GetLandmarkOf(s, lm, "ankle")
    IN  IF IsDefined(hip) /\ IsDefined(knee) /\ IsDefined(ankle)
        THEN Angle(Val(hip), Val(knee), Val(ankle))
        ELSE Undefined

\* update() of the counter of the opposite side, on the mirrored frame
UpdateMirror(lm) ==
    LET angle == FrameAngleOf(OtherSide(side), Mirrored(lm))
        ev(st, done) == [angle |-> angle, state |-> st, rep_completed |-> done]
    IN  IF ~IsDefined(angle)
        THEN [mirror EXCEPT !.event = ev(mirror.state, FALSE)]
        ELSE IF NoiseFiltered(mirror.last_angle, Val(angle))
        THEN [mirror EXCEPT !.last_angle = angle,
                            !.event = ev(mirror.state, FALSE)]
        ELSE IF GoesDown(mirror.state, Val(angle))
        THEN [mirror EXCEPT !.last_angle = angle, !.state = "down",
                            !.event = ev("down", FALSE)]
        ELSE IF ComesUp(mirror.state, Val(angle))
        THEN [mirror EXCEPT !.last_angle = angle, !.state = "up",
                            !.rep_count = Increment(@),
                            !.event = ev("up", TRUE)]
        ELSE [mirror EXCEPT !.last_angle = angle,
                            !.event = ev(mirror.state, FALSE)]

\* the history since construction or reset, after a sample with this angle
\* for which update() returned rep_completed = done
Walk(angle, done) ==
    LET ok == IsDefined(angle) /\ ~NoiseFiltered(last_angle, Val(angle))
        a  == Val(angle)
        ph == IF ~ok THEN "off"
              ELSE IF since.phase = "fresh"
                   THEN (IF a >= up_angle THEN "top" ELSE "off")
              ELSE IF since.phase = "top"
                   THEN (IF a <= down_angle THEN "bottom" ELSE "top")
              ELSE IF since.phase = "bottom"
                   THEN (IF a >= up_angle THEN "done" ELSE "bottom")
              ELSE "off"
    IN  [phase  |-> ph,
         moved  |-> ph # since.phase,
         script |-> IF /\ since.script \in 0..4
                       /\ angle = Some(Script[since.script + 1])
                    THEN since.script + 1
                    ELSE -1,
         completed |-> IF done THEN since.completed + 1 ELSE since.completed,
         seen   |-> since.seen \/ IsDefined(angle),
         first  |-> IsDefined(angle) /\ ~since.seen]

update(lm) ==
    LET angle == FrameAngle(lm)
    IN  /\ Constructed
        /\ rep_count < MaxReps
        /\ pre' = Snapshot
        /\ op' = "update"
        /\ landmarks' = lm
        /\ raised' = Escapes(lm)
        /\ UNCHANGED << config, args >>
        /\ IF ~IsDefined(angle)
           THEN NoAngle
           ELSE /\ last_angle' = angle
                /\ IF NoiseFiltered(last_angle, Val(angle))
                   THEN /\ event' = [angle |-> angle, state |-> state,
                                     rep_completed |-> FALSE]
                        /\ UNCHANGED << rep_count, state, hist >>
                   ELSE IF GoesDown(state, Val(angle))
                   THEN /\ state' = "down"
                        /\ UNCHANGED rep_count
                        /\ event' = [angle |-> angle, state |-> "down",
                                     rep_completed |-> FALSE]
                        /\ hist' = [hist EXCEPT !.accepted = angle,
                                                !.flexed = TRUE,
                                                !.viaMid = hist.mid]
                   ELSE IF ComesUp(state, Val(angle))
                   THEN /\ state' = "up"
                        /\ rep_count' = Increment(rep_count)
                        /\ event' = [angle |-> angle, state |-> "up",
                                     rep_completed |-> TRUE]
                        /\ hist' = [NoHist EXCEPT !.accepted = angle]
                   ELSE /\ UNCHANGED << rep_count, state >>
                        /\ event' = [angle |-> angle, state |-> state,
                                     rep_completed |-> FALSE]
                        /\ hist' = [hist EXCEPT
                                      !.accepted = angle,
                                      !.mid = hist.mid \/
                                          (state = "up" /\ InDeadZone(Val(angle)))]
        /\ since' = Walk(angle, event'.rep_completed)
        /\ other' = UpdateOther(lm)
        /\ mirror' = UpdateMirror(lm)

\* a call of update() on the counter, outside a capture loop
Update(lm) ==
    /\ running = "SquatCounter"
    /\ update(lm)
    /\ UNCHANGED << running, trainerVars, libVars >>

(***************************************************************************)
(* PoseDetector.get_knee_angle (src/pose_module.py): None without pose     *)
(* landmarks or with a zero limb vector, else the angle hip-knee-ankle.    *)
(* A pose is Undefined (no landmarks) or <<hip, knee, ankle>> in pixels.   *)
(***************************************************************************)
Poses ==
    { Undefined }
    \cup { Some(<< HipPt, KneePt, a >>) : a \in AnklePts \cup { KneePt } }

get_knee_angle(pose) ==
    IF ~IsDefined(pose)
    THEN Undefined
    ELSE Angle(Val(pose)[1], Val(pose)[2], Val(pose)[3])

(***************************************************************************)
(* squat_trainer.main: one iteration of the capture loop.                  *)
(***************************************************************************)
Keys == { "none", "s", "q" }

StandsUp(angle) == angle > 17000

StartsDownAnyStage(stg, angle) == 9000 < angle /\ angle <= 17000

StartsDown(stg, angle) ==
    9000 < angle /\ angle <= 17000 /\ stg = "Standing Up"

CountsRepAnyStage(stg, angle) == angle <= 9000 /\ stg # "Coming Up"

CountsRep(stg, angle) == angle <= 9000 /\ stg = "Going Down"

LoopSnapshot(mode) ==
    [stage |-> stage, reps |-> reps, hist |-> loop_hist, mode |-> mode,
     quit |-> FALSE, counter |-> counter]

\* the methods of AudioCoach
AudioCoachMethods ==
    { "__init__", "_speak", "speak_async", "intro_message", "cheer_for_rep" }

PastTarget(n, target) == n > target

\* if rep_count >= target_reps:
AtTarget(n, target) == n >= target

\* cap.read() fails: the loop is left
ReadFailed ==
    /\ running = "squat_trainer"
    /\ pc = "loop"
    /\ pc' = "released"
    /\ loop_pre' = LoopSnapshot("read failed")
    /\ coach_calls' = << >>
    /\ UNCHANGED << running, started, stage, reps, knee_angle, loop_hist, hud,
                    counterVars, libVars >>

\* start screen: S starts the workout, Q leaves the loop
StartScreen(key) ==
    /\ running = "squat_trainer"
    /\ pc = "loop"
    /\ ~started
    /\ loop_pre' = [LoopSnapshot("start screen") EXCEPT !.quit = (key = "q")]
    /\ started' = (key = "s")
    /\ coach_calls' = IF key = "s" THEN << << "speak_async" >> >> ELSE << >>
    /\ pc' = IF key = "q" THEN "released" ELSE "loop"
    /\ UNCHANGED << running, stage, reps, knee_angle, loop_hist, hud, counterVars,
                    libVars >>

\* workout mode: the stage machine, then the key and the target
Workout(key, pose) ==
    LET angle   == get_knee_angle(pose)
        has     == IsDefined(angle)
        stands  == has /\ StandsUp(Val(angle))
        starts  == has /\ ~stands /\ StartsDown(stage, Val(angle))
        counts  == has /\ ~stands /\ ~starts /\ CountsRep(stage, Val(angle))
        reps1   == IF counts THEN reps + 1 ELSE reps
        finish  == key # "q" /\ AtTarget(reps1, target_reps)
        \* coach.finish_message(): AttributeError when AudioCoach has no
        \* such method
        said    == finish /\ "finish_message" \in AudioCoachMethods
    IN  /\ running = "squat_trainer"
        /\ pc = "loop"
        /\ started
        /\ loop_pre' = [LoopSnapshot("workout") EXCEPT !.quit = (key = "q")]
        /\ knee_angle' = angle
        /\ stage' = IF stands THEN "Standing Up"
                    ELSE IF starts THEN "Going Down"
                    ELSE IF counts THEN "Coming Up"
                    ELSE stage
        /\ reps' = reps1
        /\ coach_calls' =
              (IF counts THEN << << "cheer_for_rep", reps1 >> >> ELSE << >>)
              \o (IF said THEN << << "finish_message" >> >> ELSE << >>)
        /\ pc' = IF finish /\ ~said THEN "raised"
                 ELSE IF key = "q" \/ finish THEN "released"
                 ELSE "loop"
        /\ loop_hist' =
              IF counts THEN NoLoopHist
              ELSE IF stands THEN [loop_hist EXCEPT !.stood = TRUE]
              ELSE IF has /\ 9000 < Val(angle)
                   THEN [loop_hist EXCEPT !.mid = loop_hist.stood \/ loop_hist.mid]
              ELSE loop_hist
        /\ UNCHANGED << running, started, hud, counterVars, libVars >>

(***************************************************************************)
(* src/Scripts/main.py: the onboarding screen and one iteration of the     *)
(* capture loop.  PoseDetector.detect returns no landmark map (Undefined)  *)
(* or the map of the best pose, with side-qualified names; both legs are   *)
(* at the same pixels (the camera sees the body from the side).            *)
(***************************************************************************)
\* frame.shape[:2] of the camera image: height, width
FrameShape == << 480, 640 >>

margin == 25

LegsFrame(a) ==
    SideFrame("left", HipPt, KneePt, a) @@ SideFrame("right", HipPt, KneePt, a)

\* an ankle below the lower margin of the image
LowAnkle == << 30, 470 >>

Detections ==
    { Undefined }
    \cup { Some(LegsFrame(a)) :
             a \in { StraightAnkle, << 42, 47 >>, DeepAnkle, LowAnkle } }

body_fully_visible(lm) ==
    /\ DOMAIN lm # {}
    /\ \A k \in DOMAIN lm :
          /\ lm[k][1] >= margin
          /\ lm[k][2] >= margin
          /\ lm[k][1] <= FrameShape[2] - margin
          /\ lm[k][2] <= FrameShape[1] - margin

MainKeys == { "none", "space", "q" }

AnnouncesEveryEvent(ev) == TRUE

\* if event.rep_completed:
Announces(ev) == ev.rep_completed

\* _wait_for_user_ready and the return of main when it is false
WaitForUserReady(ret, key) ==
    /\ running = "main"
    /\ pc = "loop"
    /\ ~started
    /\ loop_pre' = [LoopSnapshot("start screen") EXCEPT
                       !.quit = (ret /\ key = "q")]
    /\ started' = (ret /\ key = "space")
    /\ pc' = IF ret /\ key # "q" THEN "loop" ELSE "released"
    /\ coach_calls' = << >>
    /\ UNCHANGED << running, stage, reps, knee_angle, loop_hist, hud, counterVars,
                    libVars >>

\* the HUD of a frame without an event, drawn from the event of the
\* frame before
HudKeepsEvent(n, ev, st, visible) ==
    [drawn |-> TRUE, rep_count |-> n,
     angle |-> IF IsDefined(ev) THEN Val(ev).angle ELSE event.angle,
     state |-> IF IsDefined(ev) THEN Val(ev).state ELSE event.state,
     completed |-> IF IsDefined(ev) THEN Val(ev).rep_completed
                   ELSE event.rep_completed,
     body_visible |-> visible]

\* lines 82-93: the arguments of overlay.draw_hud, from the event of this
\* frame (Undefined for event = None), counter.rep_count and counter.state
Hud(n, ev, st, visible) ==
    [drawn |-> TRUE, rep_count |-> n,
     angle |-> IF IsDefined(ev) THEN Val(ev).angle ELSE Undefined,
     state |-> IF IsDefined(ev) THEN Val(ev).state ELSE st,
     completed |-> IF IsDefined(ev) THEN Val(ev).rep_completed ELSE FALSE,
     body_visible |-> visible]

\* one iteration of the loop of main
MainIteration(ret, found, key) ==
    LET visible == IsDefined(found) /\ body_fully_visible(Val(found))
        seen == ret /\ visible
    IN  /\ running = "main"
        /\ pc = "loop"
        /\ started
        /\ loop_pre' = [LoopSnapshot(IF ~ret THEN "read failed"
                                     ELSE IF seen THEN "update"
                                     ELSE IF IsDefined(found) THEN "not visible"
                                     ELSE "no landmarks")
                           EXCEPT !.quit = (ret /\ key = "q")]
        /\ IF seen
           THEN /\ update(Val(found))
                /\ coach_calls' =
                      IF Announces(event')
                      THEN << << "announce_repetition", rep_count' >> >>
                      ELSE << >>
           ELSE /\ UNCHANGED counterVars
                /\ coach_calls' = << >>
        /\ hud' = IF ~ret THEN hud
                  ELSE Hud(rep_count', IF seen THEN Some(event') ELSE Undefined,
                           state', visible)
        /\ pc' = IF ret /\ key # "q" THEN "loop" ELSE "released"
        /\ UNCHANGED << running, started, stage, reps, knee_angle, loop_hist,
                        libVars >>

(***************************************************************************)
(* src/Scripts_Final/squat_trainer.py: one iteration of the capture loop,  *)
(* with the two-stage machine.                                             *)
(***************************************************************************)
final_target_reps == 20

down_angle_threshold == 9000

up_angle_threshold == 15000

\* cap.read() fails: the loop is left
FinalReadFailed ==
    /\ running = "Scripts_Final"
    /\ pc = "loop"
    /\ pc' = "released"
    /\ loop_pre' = LoopSnapshot("read failed")
    /\ coach_calls' = << >>
    /\ UNCHANGED << running, started, stage, reps, knee_angle, loop_hist, hud,
                    counterVars, libVars >>

\* start screen: S starts the workout, Q leaves the loop
FinalStartScreen(key) ==
    /\ running = "Scripts_Final"
    /\ pc = "loop"
    /\ ~started
    /\ loop_pre' = [LoopSnapshot("start screen") EXCEPT !.quit = (key = "q")]
    /\ started' = (key = "s")
    /\ coach_calls' = IF key = "s" THEN << << "speak_async" >> >> ELSE << >>
    /\ pc' = IF key = "q" THEN "released" ELSE "loop"
    /\ UNCHANGED << running, stage, reps, knee_angle, loop_hist, hud, counterVars,
                    libVars >>

FinalCountsAboveDown(stg, angle) ==
    angle > down_angle_threshold /\ stg = "down"

\* if knee_angle > up_angle_threshold and stage == "down":
FinalCounts(stg, angle) == angle > up_angle_threshold /\ stg = "down"

\* lines 134-165: the knee angle of the frame and the two tests on it
TwoStage(angle) ==
    LET has    == IsDefined(angle)
        lowers == has /\ Val(angle) < down_angle_threshold /\ stage = "up"
        stage1 == IF lowers THEN "down" ELSE stage
        counts == has /\ FinalCounts(stage1, Val(angle))
        reps1  == IF counts THEN reps + 1 ELSE reps
    IN  /\ knee_angle' = angle
        /\ stage' = IF counts THEN "up" ELSE stage1
        /\ reps' = reps1
        /\ coach_calls' =
              IF counts THEN << << "cheer_for_rep", reps1 >> >> ELSE << >>

\* workout mode: the two tests on the knee angle, then the key and the target
FinalWorkout(key, pose) ==
    /\ running = "Scripts_Final"
    /\ pc = "loop"
    /\ started
    /\ loop_pre' = [LoopSnapshot("workout") EXCEPT !.quit = (key = "q")]
    /\ TwoStage(get_knee_angle(pose))
    /\ pc' = IF key = "q" \/ AtTarget(reps', final_target_reps)
             THEN "released" ELSE "loop"
    /\ UNCHANGED << running, started, loop_hist, hud, counterVars, libVars >>

(***************************************************************************)
(* The two-stage machine of Scripts_Final and SquatCounter.update side by  *)
(* side: each sample is a leg whose knee angle is defined and is neither   *)
(* threshold; the machine gets the angle, the counter the landmarks.       *)
(***************************************************************************)
SideBySidePoses ==
    { Some(<< HipPt, KneePt, a >>) :
        a \in AnklePts \cup { ScenarioAnkles[i] : i \in 1..5 } }

FeedBoth(pose) ==
    LET angle == get_knee_angle(pose)
    IN  /\ running = "side_by_side"
        /\ IsDefined(angle)
        /\ Val(angle) \notin { down_angle_threshold, up_angle_threshold }
        /\ loop_pre' = LoopSnapshot("workout")
        /\ TwoStage(angle)
        /\ update(BareFrame(Val(pose)[1], Val(pose)[2], Val(pose)[3]))
        /\ UNCHANGED << running, pc, started, loop_hist, hud, libVars >>

(***************************************************************************)
(* SquatCounter._angle applied on its own to three points, in both orders  *)
(* of the limbs.  _angle has no raise statement, and the division is       *)
(* reached only with two non-zero norms.                                   *)
(***************************************************************************)
AngleRaises(a, b, c) == "none"

CallAngle ==
    LET a == angle_call.pts[1]
        b == angle_call.pts[2]
        c == angle_call.pts[3]
    IN  /\ running = "_angle"
        /\ ~angle_call.called
        /\ angle_call' = [angle_call EXCEPT !.called = TRUE,
                                            !.out = Angle(a, b, c),
                                            !.rev = Angle(c, b, a),
                                            !.raised = AngleRaises(a, b, c)]
        /\ UNCHANGED << running, counterVars, trainerVars, audioVars >>

(***************************************************************************)
(* The clock, and the end of the speech threads whose 'say' has finished.  *)
(***************************************************************************)
StillSaying(ends, t) == SelectSeq(ends, LAMBDA e : e > t)

Tick(d) ==
    /\ running \in { "AudioCoach", "dispatchers", "sound_feedback" }
    /\ now + d <= Horizon
    /\ now' = now + d
    /\ saying' = StillSaying(saying, now + d)
    /\ UNCHANGED << running, counterVars, trainerVars, angle_call,
                    last_spoken_time, has_tts, dispatch, _enabled, _last_ts,
                    sessions, uttered, asked >>

\* the last two of the utterances, after one more
Last2(seq, t) == IF seq = << >> THEN << t >> ELSE << seq[Len(seq)], t >>

TooSoonNever(last, t, gap) == FALSE

\* current_time - self.last_spoken_time < self.speak_delay;
\* (now - _last_ts) < _MIN_GAP
TooSoon(last, t, gap) == t - last < gap

(***************************************************************************)
(* AudioCoach.speak_async called from one thread, as the capture loops do  *)
(* (through intro_message and cheer_for_rep too, which end in one call of  *)
(* speak_async): the checks, the timestamp, and the daemon thread that     *)
(* runs 'say' for as long as the message takes.                            *)
(***************************************************************************)
SpeakAsync(dur) ==
    LET current_time == now
        spoke == has_tts /\ ~TooSoon(last_spoken_time, current_time, speak_delay)
    IN  /\ running = "AudioCoach"
        /\ asked' = [called |-> TRUE, at |-> current_time,
                     before |-> last_spoken_time, spoke |-> spoke,
                     text |-> "message", raised |-> "none"]
        /\ last_spoken_time' = IF spoke THEN current_time ELSE last_spoken_time
        /\ saying' = IF spoke THEN Append(saying, now + dur) ELSE saying
        /\ uttered' = IF spoke THEN Last2(uttered, current_time) ELSE uttered
        /\ UNCHANGED << running, counterVars, trainerVars, angle_call, now,
                        has_tts, dispatch, _enabled, _last_ts, sessions >>

(***************************************************************************)
(* AudioCoach.speak_async called from two threads.  The method takes no    *)
(* lock: between the test of last_spoken_time (line 78) and its assignment *)
(* (line 81) the other thread can run.                                     *)
(***************************************************************************)
\* lines 73-79: has_tts, current_time, the test
Check(t) ==
    /\ running = "dispatchers"
    /\ dispatch[t].pc = "idle"
    /\ dispatch' =
          IF has_tts /\ ~TooSoon(last_spoken_time, now, speak_delay)
          THEN [dispatch EXCEPT ![t] = [pc |-> "passed", current_time |-> now]]
          ELSE dispatch
    /\ UNCHANGED << running, counterVars, trainerVars, angle_call, now,
                    last_spoken_time, has_tts, saying, _enabled, _last_ts,
                    sessions, uttered, asked >>

\* lines 81-85: the timestamp, the thread
Stamp(t, dur) ==
    /\ running = "dispatchers"
    /\ dispatch[t].pc = "passed"
    /\ last_spoken_time' = dispatch[t].current_time
    /\ saying' = Append(saying, now + dur)
    /\ uttered' = Last2(uttered, dispatch[t].current_time)
    /\ dispatch' = [dispatch EXCEPT ![t].pc = "idle"]
    /\ UNCHANGED << running, counterVars, trainerVars, angle_call, now,
                    has_tts, _enabled, _last_ts, sessions, asked >>

(***************************************************************************)
(* sound_feedback: SoundFeedback objects over the module's _enabled and    *)
(* _last_ts.  The header of __init__ and the call of itertools.cycle are   *)
(* written over two lines and read as the one header and the one call      *)
(* they mean.                                                              *)
(***************************************************************************)
\* SoundFeedback(enabled=flag, goal=20)
NewSoundFeedback(i, flag) ==
    /\ running = "sound_feedback"
    /\ ~sessions[i].made
    /\ sessions' = [sessions EXCEPT ![i] =
                       [made |-> TRUE, goal |-> 20, goal_announced |-> FALSE,
                        wanted |-> flag, spoke |-> 0]]
    /\ _enabled' = flag
    /\ UNCHANGED << running, counterVars, trainerVars, angle_call, now,
                    last_spoken_time, has_tts, saying, dispatch, _last_ts,
                    uttered, asked >>

\* SoundFeedback.set_enabled(flag)
SetEnabled(i, flag) ==
    /\ running = "sound_feedback"
    /\ sessions[i].made
    /\ sessions' = [sessions EXCEPT ![i].wanted = flag]
    /\ _enabled' = flag
    /\ UNCHANGED << running, counterVars, trainerVars, angle_call, now,
                    last_spoken_time, has_tts, saying, dispatch, _last_ts,
                    uttered, asked >>

\* SoundFeedback.announce_repetition(count), with the call of speak it makes
AnnounceRepetition(i, count) ==
    LET s     == sessions[i]
        atGoal == count >= s.goal /\ ~s.goal_announced
        text  == IF atGoal THEN "goal"
                 ELSE IF count % 5 = 0 THEN "count" ELSE "encouragement"
        spoke == _enabled /\ ~TooSoon(_last_ts, now, _MIN_GAP)
    IN  /\ running = "sound_feedback"
        /\ s.made
        /\ asked' = [called |-> TRUE, at |-> now, before |-> _last_ts,
                     spoke |-> spoke, text |-> text, raised |-> "none"]
        /\ _last_ts' = IF spoke THEN now ELSE _last_ts
        /\ uttered' = IF spoke THEN Last2(uttered, now) ELSE uttered
        /\ sessions' = [sessions EXCEPT
                          ![i].goal_announced = @ \/ atGoal,
                          ![i].spoke = IF spoke THEN now ELSE @]
        /\ UNCHANGED << running, counterVars, trainerVars, angle_call, now,
                        last_spoken_time, has_tts, saying, dispatch, _enabled >>

(***************************************************************************)
(* Specification                                                           *)
(***************************************************************************)
Next ==
    \/ \E lm \in Frames : Update(lm)
    \/ Reset
    \/ ReadFailed
    \/ \E key \in Keys : StartScreen(key)
    \/ \E key \in Keys, pose \in Poses : Workout(key, pose)
    \/ CallAngle
    \/ \E ret \in BOOLEAN, key \in MainKeys : WaitForUserReady(ret, key)
    \/ \E ret \in BOOLEAN, found \in Detections, key \in MainKeys :
          MainIteration(ret, found, key)
    \/ FinalReadFailed
    \/ \E key \in Keys : FinalStartScreen(key)
    \/ \E key \in Keys, pose \in Poses : FinalWorkout(key, pose)
    \/ \E pose \in SideBySidePoses : FeedBoth(pose)
    \/ \E d \in Advances : Tick(d)
    \/ \E dur \in Durations : SpeakAsync(dur)
    \/ \E t \in Callers : Check(t)
    \/ \E t \in Callers, dur \in Durations : Stamp(t, dur)
    \/ \E i \in SessionIds, flag \in BOOLEAN : NewSoundFeedback(i, flag)
    \/ \E i \in SessionIds, flag \in BOOLEAN : SetEnabled(i, flag)
    \/ \E i \in SessionIds, count \in Counts : AnnounceRepetition(i, count)

Spec == Init /\ [][Next]_vars

(***************************************************************************)
(* What the last update() was given, read back from the state.             *)
(***************************************************************************)
Updated == op = "update"

\* joint j has an entry the counter's side can use
Present(j) == Key(side, j) \in DOMAIN landmarks \/ j \in DOMAIN landmarks

AllPresent == \A j \in Joints : Present(j)

Joint(j) == Val(GetLandmark(landmarks, j))

Degenerate ==
    AllPresent /\ (Joint("hip") = Joint("knee") \/ Joint("ankle") = Joint("knee"))

\* the angle of the sample, when it has one
Theta == Val(FrameAngle(landmarks))

\* a joint without finite coordinates
NotFinite == AllPresent /\ \E j \in Joints : Joint(j) = NaNPt

HasAngle == Updated /\ AllPresent /\ ~Degenerate /\ ~NotFinite

\* the sample was within min_movement of the angle update() compared it with
Gated ==
    /\ IsDefined(pre.last_angle)
    /\ Abs(Theta - Val(pre.last_angle)) < min_movement

\* all three joints resolved, angle defined, not noise-filtered
Accepted == HasAngle /\ ~Gated

(***************************************************************************)
(* Transitions of SquatCounter.update                                      *)
(***************************************************************************)
\* C1: an update in state down whose sample is accepted with
\* angle >= up_angle (equality included) sets state to up, increases
\* rep_count by exactly 1 and returns rep_completed = true.
C1_DownToUp ==
    (Accepted /\ pre.state = "down" /\ Theta >= up_angle)
        => /\ state = "up"
           /\ rep_count = pre.rep_count + 1
           /\ event = [angle |-> Some(Theta), state |-> "up",
                       rep_completed |-> TRUE]

C1_Witness ==
    /\ Accepted /\ pre.state = "down" /\ Theta = up_angle
    /\ state = "up" /\ rep_count = 1

\* C2: an update in state up whose sample is accepted with
\* angle <= down_angle (equality included) sets state to down, leaves
\* rep_count unchanged and returns rep_completed = false.
C2_UpToDown ==
    (Accepted /\ pre.state = "up" /\ Theta <= down_angle)
        => /\ state = "down"
           /\ rep_count = pre.rep_count
           /\ event = [angle |-> Some(Theta), state |-> "down",
                       rep_completed |-> FALSE]

C2_Witness ==
    /\ Accepted /\ pre.state = "up" /\ Theta = down_angle
    /\ state = "down" /\ pre.rep_count = 1

\* C3: an accepted sample that does not meet the transition condition of
\* the current state (up with angle > down_angle, down with
\* angle < up_angle) leaves state and rep_count unchanged and returns
\* rep_completed = false; so samples strictly between the thresholds never
\* change state or rep_count.
C3_NoTransition ==
    /\ (Accepted /\ \/ pre.state = "up" /\ Theta > down_angle
                    \/ pre.state = "down" /\ Theta < up_angle)
          => /\ state = pre.state
             /\ rep_count = pre.rep_count
             /\ event = [angle |-> Some(Theta), state |-> pre.state,
                         rep_completed |-> FALSE]
    /\ (HasAngle /\ down_angle < Theta /\ Theta < up_angle)
          => /\ state = pre.state
             /\ rep_count = pre.rep_count
             /\ event.rep_completed = FALSE

C3_Witness ==
    /\ Accepted /\ pre.state = "down"
    /\ down_angle < Theta /\ Theta < up_angle
    /\ state = "down"

WorkoutAngle == loop_pre.mode = "workout" /\ IsDefined(knee_angle)

C5_DataUnavailable ==
    (Updated /\ (~AllPresent \/ Degenerate))
        => /\ event = [angle |-> Undefined, state |-> pre.state,
                       rep_completed |-> FALSE]
           /\ rep_count = pre.rep_count
           /\ state = pre.state
           /\ last_angle = pre.last_angle

C5_Witness ==
    /\ Updated /\ ~Present("ankle") /\ Present("hip") /\ Present("knee")
    /\ pre.state = "down" /\ pre.rep_count = 1
    /\ IsDefined(last_angle) /\ state = "down"

(***************************************************************************)
(* Noise gate                                                              *)
(***************************************************************************)
\* C6: when a previous accepted angle exists and the new defined angle
\* differs from it by less than min_movement, update returns the new angle
\* with the current state and rep_completed = false and leaves state and
\* rep_count unchanged, even if the new angle satisfies a transition
\* threshold.
C6_NoiseGate ==
    (HasAngle /\ IsDefined(pre.hist.accepted)
              /\ Abs(Theta - Val(pre.hist.accepted)) < min_movement)
        => /\ event = [angle |-> Some(Theta), state |-> pre.state,
                       rep_completed |-> FALSE]
           /\ state = pre.state
           /\ rep_count = pre.rep_count

\* C7: last_angle is undefined or the most recent accepted sample; a sample
\* rejected by the noise gate, by a missing landmark or by degenerate
\* geometry does not change it.
C7_LastAngleIsLastAccepted ==
    last_angle = Undefined \/ last_angle = hist.accepted

(***************************************************************************)
(* Counting                                                                *)
(***************************************************************************)
\* C8: between two updates that return rep_completed = true without a reset
\* in between, some update performed the up -> down transition; two
\* consecutive updates never both return rep_completed = true.
C8_NoDoubleCount ==
    (Updated /\ event.rep_completed)
        => /\ pre.hist.flexed
           /\ pre.state = "down"
           /\ ~pre.completed

C8_Witness ==
    /\ Updated /\ event.rep_completed
    /\ pre.rep_count = 1 /\ rep_count = 2
    /\ pre.hist.flexed

\* C9: every update changes rep_count by 0 or +1 and never clears
\* last_angle; the only operation that lowers rep_count or sets last_angle
\* back to undefined is reset.
C9_OnlyResetClears ==
    /\ Updated => /\ rep_count \in {pre.rep_count, pre.rep_count + 1}
                  /\ IsDefined(pre.last_angle) => IsDefined(last_angle)
    /\ (\/ rep_count < pre.rep_count
        \/ IsDefined(pre.last_angle) /\ ~IsDefined(last_angle))
           => op = "reset"

C9_Witness ==
    /\ Updated /\ landmarks = EmptyFrame
    /\ pre.rep_count = 1 /\ rep_count = 1
    /\ pre.state = "down" /\ state = "down"
    /\ IsDefined(pre.last_angle) /\ last_angle = pre.last_angle

\* C10: reset, from any reachable state, leaves rep_count = 0, state = up
\* and last_angle undefined and keeps side, down_angle, up_angle and
\* min_movement; a second reset in a row changes nothing.
C10_Reset ==
    [][op' = "reset" =>
          /\ rep_count' = 0
          /\ state' = "up"
          /\ last_angle' = Undefined
          /\ config' = config
          /\ op = "reset" => counter' = counter]_vars

C10_Witness ==
    /\ op = "reset"
    /\ pre.rep_count = 1 /\ pre.state = "down" /\ IsDefined(pre.last_angle)
    /\ rep_count = 0 /\ state = "up" /\ last_angle = Undefined

(***************************************************************************)
(* Construction and configuration                                          *)
(***************************************************************************)
\* C11: a SquatCounter newly constructed with a valid side has
\* rep_count = 0, state = up and last_angle undefined.
C11_Fresh ==
    (op = "init" /\ args[1] \in Sides)
        => /\ Constructed
           /\ raised = "none"
           /\ rep_count = 0
           /\ state = "up"
           /\ last_angle = Undefined

C11_Witness ==
    /\ op = "init" /\ args[1] = "right" /\ side = "right"
    /\ running = "SquatCounter"
    /\ rep_count = 0 /\ state = "up" /\ last_angle = Undefined

\* C12: in every state reached by construction, update and reset calls,
\* rep_count >= 0 and state is up or down.
C12_TypeInvariant ==
    Constructed => /\ rep_count \in Nat
                   /\ state \in {"up", "down"}

C12_Witness ==
    /\ Updated /\ pre.rep_count = 1 /\ rep_count = 2 /\ state = "up"
    /\ pre.state = "down"

\* a landmark map update() gets no angle from
Malformed == ~AllPresent \/ Degenerate \/ NotFinite

\* C13: update never raises on a landmark map: it returns an event with
\* the current state, and for a map that is empty, partial, has coincident
\* points or coordinates giving no angle, the event has no angle and no
\* completed repetition and rep_count, state and last_angle stay as they
\* were.
C13_NeverRaises ==
    Updated
        => /\ raised = "none"
           /\ event.state = state
           /\ Malformed
                 => /\ event = [angle |-> Undefined, state |-> pre.state,
                                rep_completed |-> FALSE]
                    /\ counter = << pre.rep_count, pre.state, pre.last_angle >>

C13_Witness ==
    /\ Updated /\ NotFinite /\ raised = "none"
    /\ pre.state = "down" /\ pre.rep_count = 1 /\ IsDefined(pre.last_angle)
    /\ counter = << 1, "down", pre.last_angle >>

\* C14: constructing a SquatCounter with a side other than left or right
\* fails with the configuration error at construction: no counter is
\* produced, and none with a default side in place of the value given.
C14_InvalidSide ==
    args[1] \notin Sides
        => /\ raised = "ValueError"
           /\ ~Constructed
           /\ side \notin Sides
           /\ op = "init"

C14_Witness ==
    /\ args[1] = "both" /\ raised = "ValueError" /\ ~Constructed
    /\ running = "SquatCounter"

\* C15: every constructed SquatCounter has up_angle strictly greater than
\* down_angle, so that no angle is both <= down_angle and >= up_angle.
C15_DeadZone ==
    Constructed => down_angle < up_angle

\* C16: no sequence of update and reset calls changes side, down_angle,
\* up_angle or min_movement: they stay the arguments of the construction.
C16_ConfigImmutable ==
    Constructed => config = args

C16_Witness ==
    /\ op = "reset" /\ pre.rep_count = 1 /\ pre.state = "down"
    /\ args = << "right", 7000, 16000, 500 >> /\ config = args

(***************************************************************************)
(* Scenarios                                                               *)
(***************************************************************************)
\* C17: on a fresh counter, a run of accepted samples that goes from
\* >= up_angle to <= down_angle and back to >= up_angle ends with
\* rep_count = 1; the flexion update reports state down with
\* rep_completed = false, and the final update reports state up with
\* rep_completed = true.
C17_OneCountPerCycle ==
    /\ since.phase = "top"
          => rep_count = 0 /\ state = "up"
    /\ since.phase = "bottom"
          => /\ rep_count = 0
             /\ state = "down"
             /\ since.moved
                   => event = [angle |-> Some(Theta), state |-> "down",
                               rep_completed |-> FALSE]
    /\ since.phase = "done"
          => /\ rep_count = 1
             /\ state = "up"
             /\ event = [angle |-> Some(Theta), state |-> "up",
                         rep_completed |-> TRUE]

\* C18: with down_angle = 90 and up_angle = 150, the angles 175, 140, 85,
\* 95, 160 fed to a fresh counter give the states up, up, down, down, up;
\* rep_completed is false for the first four updates and true for the
\* fifth; rep_count is 0 after each of the first four and 1 at the end.
C18_Hysteresis ==
    LET n == since.script
        st == << "up", "up", "down", "down", "up" >>
    IN  (down_angle = 9000 /\ up_angle = 15000 /\ n \in 1..5)
            => /\ state = st[n]
               /\ event = [angle |-> Some(Script[n]), state |-> st[n],
                           rep_completed |-> (n = 5)]
               /\ rep_count = (IF n = 5 THEN 1 ELSE 0)

C18_Witness ==
    /\ down_angle = 9000 /\ up_angle = 15000 /\ since.script = 5
    /\ Updated /\ Theta = 16000
    /\ rep_count = 1 /\ state = "up" /\ event.rep_completed

Resolved(j) ==
    IF Key(side, j) \in DOMAIN landmarks
    THEN landmarks[Key(side, j)]
    ELSE landmarks[j]

\* C20: for each of hip, knee and ankle the coordinate used is the
\* side-qualified entry when present, otherwise the bare entry when
\* present, otherwise the joint is missing; the side-qualified entry wins
\* over a bare entry of the same joint.
C20_Resolution ==
    Updated
        => IF \A j \in Joints :
                 Key(side, j) \in DOMAIN landmarks \/ j \in DOMAIN landmarks
           THEN event.angle =
                    Angle(Resolved("hip"), Resolved("knee"), Resolved("ankle"))
           ELSE event.angle = Undefined

C20_Witness ==
    /\ Updated /\ side = "left"
    /\ "left_ankle" \in DOMAIN landmarks /\ "left_hip" \notin DOMAIN landmarks
    /\ "ankle" \in DOMAIN landmarks
    /\ landmarks["left_ankle"] = DeepAnkle /\ landmarks["ankle"] = StraightAnkle
    /\ event.angle = Some(6343)

(***************************************************************************)
(* The side of a counter                                                   *)
(***************************************************************************)
\* C21: side affects the resolution of landmark names only: a counter with
\* side left and a counter with side right, otherwise equally configured
\* and fed frames in which the hip, knee and ankle coordinates each
\* resolves are equal at every step, return identical events and hold
\* identical rep_count and state at every step.
C21_SideOnlyResolves ==
    Constructed =>
        /\ mirror.event = event
        /\ mirror.rep_count = rep_count
        /\ mirror.state = state

\* a counter of side right completed a repetition on a frame in the
\* right-hand vocabulary, its mirror on the left-hand one
C21_Witness ==
    /\ Updated
    /\ side = "right"
    /\ "right_ankle" \in DOMAIN landmarks
    /\ event.rep_completed
    /\ mirror.rep_count = 1

(***************************************************************************)
(* The noise gate and the last accepted sample                             *)
(***************************************************************************)
\* C27: the noise gate compares a sample with the last accepted sample: an
\* update whose sample has an angle at least min_movement away from the
\* last accepted sample stores it as last_angle and applies the transition
\* rule to it (up -> down at angle <= down_angle; down -> up with one more
\* rep at angle >= up_angle), also when the sample before it was filtered
\* and lies within min_movement of it.
C27_GateAgainstAccepted ==
    ( /\ HasAngle
      /\ IsDefined(pre.hist.accepted)
      /\ Abs(Theta - Val(pre.hist.accepted)) >= min_movement )
        => /\ last_angle = Some(Theta)
           /\ hist.accepted = Some(Theta)
           /\ (pre.state = "up" /\ Theta <= down_angle) => state = "down"
           /\ (pre.state = "down" /\ Theta >= up_angle)
                 => /\ state = "up"
                    /\ rep_count = pre.rep_count + 1
                    /\ event.rep_completed

(***************************************************************************)
(* SquatCounter._angle                                                     *)
(***************************************************************************)
\* C24: _angle returns NaN, without raising, whenever a = b or c = b, and
\* raises nothing and returns a defined value for every other triple of
\* finite points.
C24_AngleTotal ==
    angle_call.called =>
        LET a == angle_call.pts[1]
            b == angle_call.pts[2]
            c == angle_call.pts[3]
        IN  /\ angle_call.raised = "none"
            /\ (a = b \/ c = b) <=> ~IsDefined(angle_call.out)

\* _angle was called with the ankle on the knee
C24_Witness ==
    /\ angle_call.called
    /\ angle_call.pts = << HipPt, KneePt, KneePt >>
    /\ angle_call.out = Undefined

\* C25: for every triple with a # b and c # b the angle is a number in
\* [0, 180] degrees: the cosine is clamped to [-1, 1] before arccos, so a
\* quotient that rounding pushed past 1 in magnitude gives 0 or 180 and not
\* an undefined result.
C25_AngleRange ==
    LET a == angle_call.pts[1]
        b == angle_call.pts[2]
        c == angle_call.pts[3]
    IN  (angle_call.called /\ a # b /\ c # b)
            => /\ IsDefined(angle_call.out)
               /\ 0 <= Val(angle_call.out)
               /\ Val(angle_call.out) <= 18000
               /\ Overshoots(Sub(a, b), Sub(c, b))
                     => Val(angle_call.out) \in {0, 18000}

\* _angle was called on three points of one line whose cosine is computed
\* as -1.0000000000000002, and returned 180 degrees
C25_Witness ==
    /\ angle_call.called
    /\ angle_call.pts = << << 32, 45 >>, KneePt, << 28, 39 >> >>
    /\ Overshoots(Sub(<< 32, 45 >>, KneePt), Sub(<< 28, 39 >>, KneePt))
    /\ angle_call.out = Some(18000)

\* C26: _angle(a, b, c) = _angle(c, b, a); both are undefined when a limb
\* has zero length.
C26_AngleSymmetric ==
    angle_call.called =>
        /\ angle_call.out = angle_call.rev
        /\ (angle_call.pts[1] = angle_call.pts[2]
              \/ angle_call.pts[3] = angle_call.pts[2])
             => (angle_call.out = Undefined /\ angle_call.rev = Undefined)

\* _angle was called on a bent leg whose limbs differ in length and
\* direction, and on the same leg with hip and ankle exchanged
C26_Witness ==
    /\ angle_call.called
    /\ angle_call.pts = << HipPt, KneePt, << 32, 45 >> >>
    /\ angle_call.out = Some(14631)
    /\ angle_call.rev = Some(14631)

(***************************************************************************)
(* The capture loops and the audio collaborator                            *)
(***************************************************************************)
\* C22: a capture loop calls the audio collaborator for a repetition
\* (announce_repetition in Scripts/main.py, cheer_for_rep in the trainer
\* loops) only in an iteration in which a repetition was completed: in
\* Scripts/main.py the iteration called counter.update and the event has
\* rep_completed = true, in the trainer loops rep_count was incremented in
\* the iteration; the count passed is rep_count after the increment.
C22_AnnouncedOnCompletion ==
    \A i \in DOMAIN coach_calls :
        coach_calls[i][1] \in { "announce_repetition", "cheer_for_rep" } =>
            IF running = "main"
            THEN /\ loop_pre.mode = "update"
                 /\ op = "update"
                 /\ event.rep_completed
                 /\ rep_count = pre.rep_count + 1
                 /\ coach_calls[i] = << "announce_repetition", rep_count >>
            ELSE /\ loop_pre.mode = "workout"
                 /\ reps = loop_pre.reps + 1
                 /\ coach_calls[i] = << "cheer_for_rep", reps >>

\* the loop of Scripts_Final counted its second squat and cheered for it
C22_Witness ==
    /\ running = "Scripts_Final"
    /\ loop_pre.mode = "workout"
    /\ loop_pre.reps = 1
    /\ reps = 2
    /\ coach_calls = << << "cheer_for_rep", 2 >> >>

(***************************************************************************)
(* Rate limiting of the spoken announcements                               *)
(***************************************************************************)
Spoken == running \in { "AudioCoach", "sound_feedback" }

\* the minimum gap and the last-spoken time of the collaborator running
MinGap == IF running = "sound_feedback" THEN _MIN_GAP ELSE speak_delay

LastSpoken == IF running = "sound_feedback" THEN _last_ts ELSE last_spoken_time

\* C23: an announcement requested less than the minimum gap (_MIN_GAP in
\* speak, speak_delay in speak_async) after the last announcement that was
\* spoken is dropped: nothing is uttered, nothing is raised, and the
\* last-spoken time keeps its value; so any two spoken announcements are at
\* least the minimum gap apart.
C23_RateLimit ==
    Spoken =>
        /\ (asked.called /\ asked.at - asked.before < MinGap)
              => /\ ~asked.spoke
                 /\ asked.raised = "none"
                 /\ LastSpoken = asked.before
        /\ asked.spoke => LastSpoken = asked.at
        /\ Len(uttered) = 2 => uttered[2] - uttered[1] >= MinGap

\* an announcement was spoken, one half a second later was dropped
C23_Witness ==
    /\ running = "AudioCoach"
    /\ asked.called
    /\ asked.at = asked.before + 5
    /\ ~asked.spoke
    /\ last_spoken_time = asked.before
    /\ Len(uttered) = 2

\* C28: the test of the last-spoken time and its update are atomic with
\* respect to concurrent calls: of two announcements requested by two
\* threads within the minimum gap of each other at most one starts an
\* utterance, so any two utterances started are the minimum gap apart.
C28_AtomicRateLimit ==
    (running = "dispatchers" /\ Len(uttered) = 2)
        => Abs(uttered[2] - uttered[1]) >= speak_delay

\* C29: at any time at most one speech thread started by speak_async is
\* running 'say', whatever the calls of speak_async from one thread and
\* however long the messages take.
C29_NoOverlap ==
    running = "AudioCoach" => Len(saying) <= 1

\* C30: the enabled flag and the rate-limit timestamp that govern a
\* SoundFeedback object are the flag last given to that object and the time
\* of the last utterance made through that object: constructing, enabling,
\* disabling or speaking through another object changes neither.
C30_SessionsIsolated ==
    running = "sound_feedback" =>
        \A i \in SessionIds :
            sessions[i].made =>
                /\ _enabled = sessions[i].wanted
                /\ _last_ts = sessions[i].spoke

(***************************************************************************)
(* The target of the trainer loops                                         *)
(***************************************************************************)
\* the target of the trainer loop running
Target ==
    IF running = "Scripts_Final" THEN final_target_reps ELSE target_reps

\* C31: both trainer loops stop at the target: an iteration changes
\* rep_count by 0 or +1, the loop is left in the iteration in which
\* rep_count reaches target_reps, rep_count never exceeds target_reps, and
\* no iteration begins with rep_count at the target.
C31_StopsAtTarget ==
    running \in { "squat_trainer", "Scripts_Final" } =>
        /\ reps \in { loop_pre.reps, loop_pre.reps + 1 }
        /\ reps <= Target
        /\ loop_pre.reps < Target
        /\ reps >= Target => pc # "loop"

\* the loop of Scripts_Final counted its twentieth squat and was left
C31_Witness ==
    /\ running = "Scripts_Final"
    /\ loop_pre.mode = "workout"
    /\ ~loop_pre.quit
    /\ loop_pre.reps = final_target_reps - 1
    /\ reps = final_target_reps
    /\ pc = "released"

\* C32: in src/squat_trainer.py, an iteration in which rep_count reaches
\* target_reps (and Q is not pressed) plays the finishing message through
\* the AudioCoach, leaves the loop and releases the camera; no exception is
\* raised.
C32_FinishAtTarget ==
    (running = "squat_trainer" /\ reps >= target_reps /\ ~loop_pre.quit)
        => /\ \E i \in DOMAIN coach_calls :
                 coach_calls[i] = << "finish_message" >>
           /\ pc = "released"

(***************************************************************************)
(* The three stages of the loop of src/squat_trainer.py                    *)
(***************************************************************************)
\* C33: in the loop of src/squat_trainer.py a repetition is counted only
\* at a frame with knee angle <= 90 taken in stage "Going Down"; "Going
\* Down" is entered only from "Standing Up" by a frame with
\* 90 < angle <= 170, and "Standing Up" only by a frame with angle > 170;
\* so each counted repetition comes after a frame with angle > 170 and a
\* later frame with 90 < angle <= 170, both after the repetition counted
\* before it; a frame without a knee angle changes neither stage nor
\* rep_count.
C33_StageOrder ==
    running = "squat_trainer" =>
        /\ reps # loop_pre.reps
              => /\ WorkoutAngle /\ Val(knee_angle) <= 9000
                 /\ loop_pre.stage = "Going Down"
                 /\ stage = "Coming Up"
                 /\ loop_pre.hist.stood /\ loop_pre.hist.mid
                 /\ loop_hist = NoLoopHist
        /\ (stage = "Going Down" /\ loop_pre.stage # "Going Down")
              => /\ loop_pre.stage = "Standing Up"
                 /\ WorkoutAngle
                 /\ 9000 < Val(knee_angle) /\ Val(knee_angle) <= 17000
        /\ (stage = "Standing Up" /\ loop_pre.stage # "Standing Up")
              => WorkoutAngle /\ Val(knee_angle) > 17000
        /\ stage = "Going Down" => loop_hist.stood /\ loop_hist.mid
        /\ (loop_pre.mode = "workout" /\ ~IsDefined(knee_angle))
              => stage = loop_pre.stage /\ reps = loop_pre.reps

\* after one counted repetition and a new descent, a frame without a knee
\* angle left the stage at "Going Down" and the count at 1
C33_Witness ==
    /\ running = "squat_trainer"
    /\ loop_pre.mode = "workout"
    /\ ~IsDefined(knee_angle)
    /\ loop_pre.stage = "Going Down"
    /\ stage = "Going Down"
    /\ loop_pre.reps = 1
    /\ reps = 1

(***************************************************************************)
(* The count and the completed repetitions                                 *)
(***************************************************************************)
\* C34: rep_count of a SquatCounter equals the number of update calls that
\* returned rep_completed = true since construction or the most recent
\* reset, and an update returns rep_completed = true exactly when it
\* changed state from down to up.
C34_CountIsCompletions ==
    Constructed =>
        /\ rep_count = since.completed
        /\ Updated => (event.rep_completed
                          <=> (pre.state = "down" /\ state = "up"))

\* the second update since the construction that returned
\* rep_completed = true
C34_Witness ==
    /\ running = "SquatCounter"
    /\ Updated
    /\ event.rep_completed
    /\ pre.state = "down" /\ state = "up"
    /\ since.completed = 2
    /\ rep_count = 2

(***************************************************************************)
(* The first sample                                                        *)
(***************************************************************************)
\* C35: the first update with a defined angle after construction or reset
\* finds last_angle undefined and is not noise-filtered, whatever
\* min_movement is: the sample is stored and the transition rule is applied
\* to it, so a first sample <= down_angle moves the counter to down.
C35_FirstSampleProcessed ==
    (Updated /\ since.first)
        => /\ HasAngle
           /\ ~IsDefined(pre.last_angle)
           /\ pre.state = "up"
           /\ last_angle = Some(Theta)
           /\ hist.accepted = Some(Theta)
           /\ rep_count = 0
           /\ Theta <= down_angle
                 => /\ state = "down"
                    /\ event = [angle |-> Some(Theta), state |-> "down",
                                rep_completed |-> FALSE]
           /\ Theta > down_angle => state = "up"

\* a counter with a noise gate of 50 degrees was moved to down by its first
\* sample, at 63.43 degrees
C35_Witness ==
    /\ Updated
    /\ since.first
    /\ min_movement = 5000
    /\ Theta = 6343
    /\ state = "down"
    /\ rep_count = 0

(***************************************************************************)
(* Visibility gating in the loop of Scripts/main.py                        *)
(***************************************************************************)
\* C36: in an iteration of the loop of Scripts/main.py whose frame has no
\* landmarks or a body not fully visible, counter.update is not called:
\* rep_count, state and last_angle are as they were when the iteration
\* began, no repetition is announced, and the HUD is drawn with the
\* counter's rep_count and state, no angle and completed = false.
C36_VisibilityGate ==
    (running = "main" /\ loop_pre.mode \in { "no landmarks", "not visible" })
        => /\ counter = loop_pre.counter
           /\ coach_calls = << >>
           /\ hud = [drawn |-> TRUE, rep_count |-> rep_count,
                     angle |-> Undefined, state |-> state,
                     completed |-> FALSE, body_visible |-> FALSE]

\* the frame after the one that completed a repetition showed a body not
\* fully visible
C36_Witness ==
    /\ running = "main"
    /\ loop_pre.mode = "not visible"
    /\ event.rep_completed
    /\ rep_count = 1
    /\ loop_pre.counter = << 1, "up", last_angle >>
    /\ hud.drawn /\ ~hud.completed /\ hud.state = "up"

(***************************************************************************)
(* The two-stage machine and the counter                                   *)
(***************************************************************************)
\* C37: the two-stage machine of Scripts_Final/squat_trainer.py and a
\* SquatCounter with down_angle = 90, up_angle = 150 and min_movement = 0,
\* given the same defined knee angles, none of them 90 or 150, have the
\* same stage and state and the same rep_count after every sample.
C37_TwoStageEquivalent ==
    running = "side_by_side" =>
        /\ stage = state
        /\ reps = rep_count

\* both counted their second repetition on the same sample
C37_Witness ==
    /\ running = "side_by_side"
    /\ Updated
    /\ knee_angle = event.angle
    /\ event.rep_completed
    /\ coach_calls = << << "cheer_for_rep", 2 >> >>
    /\ reps = 2 /\ rep_count = 2
    /\ stage = "up" /\ state = "up"

====
